---- MODULE Spec2Model ----
(***************************************************************************)
(* Model of scripts/update_leaderboard.py and scripts/update_news.py, the  *)
(* two scripts that share the persisted document data/ai_dashboard.json.   *)
(*                                                                         *)
(* Encoding of Python values                                               *)
(*   str    a text read from an item is the sequence of its words (they    *)
(*          are separated by single spaces), "" is << >>; a label the      *)
(*          scripts make up (a vendor, a category) is a string             *)
(*   None   the value None below                                           *)
(*   dict   a function from its keys to their values; {} is << >>          *)
(*   list   a sequence                                                     *)
(*   float  an integer number of fixed-point units: an item's score in     *)
(*          1e-4 (update_news rounds it to 4 places), a signal in 1e-5,    *)
(*          a weight in 1e-2, a weighted total in 1e-7                     *)
(*                                                                         *)
(* The scripts are run one after the other, never at the same time; the    *)
(* loop of update_leaderboard.main is followed item by item.               *)
(***************************************************************************)
EXTENDS Integers, Sequences, FiniteSets, TLC

\* ---------------------------------------------------------------- bounds
MaxNews == 2      \* longest news batch
MaxTopPer == 2    \* largest positive TOP_PER_BUCKET tried
MaxTime == 1      \* distinct clock readings
MaxFetch == 2     \* longest list a fetch returns

\* ------------------------------------------------------- Python helpers
None == [i \in {0} |-> "None"]

Truthy(v) == v # None /\ v # <<>>

Or(a, b) == IF Truthy(a) THEN a ELSE b

Get(d, k, default) == IF k \in DOMAIN d THEN d[k] ELSE default

SetKey(d, k, v) == [x \in (DOMAIN d) \cup {k} |-> IF x = k THEN v ELSE d[x]]

Min(a, b) == IF a <= b THEN a ELSE b

Max(a, b) == IF a >= b THEN a ELSE b

Range(s) == {s[i] : i \in 1..Len(s)}

\* round(n/d) as Python 3 rounds: to nearest, a tie to the even neighbour
Round(n, d) ==
  LET q == n \div d
      r == n % d
  IN  IF 2 * r < d THEN q
      ELSE IF 2 * r > d THEN q + 1
      ELSE IF q % 2 = 0 THEN q ELSE q + 1

\* seq[:k]
Slice(seq, k) ==
  IF k >= 0 THEN SubSeq(seq, 1, Min(k, Len(seq)))
  ELSE SubSeq(seq, 1, Max(0, Len(seq) + k))

\* str.lower() on the words of the model's vocabulary
LowerCase == ("OpenAI" :> "openai") @@ ("GPT" :> "gpt") @@ ("Claude" :> "claude")

Lower(text) ==
  [i \in 1..Len(text) |-> IF text[i] \in DOMAIN LowerCase THEN LowerCase[text[i]] ELSE text[i]]

\* the words of the vocabulary that hold a shorter needle inside them
Substrings == {<<"benchmarks", "benchmark">>}

Contains(word, needle) == word = needle \/ <<word, needle>> \in Substrings

\* needle in text, for a needle of one or more words
HasSubstring(text, needle) ==
  \E i \in 1..Len(text) :
    /\ i + Len(needle) - 1 <= Len(text)
    /\ IF Len(needle) = 1 THEN Contains(text[i], needle[1])
       ELSE \A j \in 1..Len(needle) : text[i + j - 1] = needle[j]

\* re.search(r"\b(a|b|...)\b", text): some alternative stands in the text as
\* whole words
Search(pattern, text) ==
  \E alt \in pattern : \E i \in 1..Len(text) :
    /\ i + Len(alt) - 1 <= Len(text)
    /\ \A j \in 1..Len(alt) : text[i + j - 1] = alt[j]

\* ------------------------------------------------------- module tables
UNIT == 100000    \* 1.0 in signal units

WEIGHTS ==
  [popularity |-> 40, performance |-> 25, cost |-> 10, privacy |-> 10, innovation |-> 15]

CATEGORIES == <<"LLM/Text", "Image/Vision", "Video/Motion", "Audio/Music", "Multi-Modal/Agentic">>

KEYWORDS ==
  [popularity |-> << {<<"launch">>, <<"release">>, <<"now", "available">>, <<"partnership">>,
                      <<"user">>, <<"users">>, <<"adoption">>, <<"daily", "active">>} >>,
   performance |-> << {<<"benchmark">>, <<"leaderboard">>, <<"MMLU">>, <<"reasoning">>,
                       <<"accuracy">>, <<"SOTA">>, <<"realism">>, <<"fidelity">>} >>,
   cost |-> << {<<"cost">>, <<"cheap">>, <<"affordab">>, <<"pricing">>, <<"token">>, <<"tokens">>,
                <<"throughput">>, <<"latency">>, <<"efficien">>, <<"serverless">>} >>,
   privacy |-> << {<<"privacy">>, <<"copyright">>, <<"likeness">>, <<"optout">>, <<"opt", "out">>,
                   <<"consent">>, <<"watermark">>, <<"safety">>, <<"ondevice">>,
                   <<"on", "device">>} >>,
   innovation |-> << {<<"multimodal">>, <<"agent">>, <<"agents">>, <<"tooluse">>, <<"tool", "use">>,
                      <<"ecosystem">>, <<"plugins">>, <<"extensions">>, <<"vision">>,
                      <<"audio">>, <<"video">>} >>]

\* the patterns are matched with re.IGNORECASE: on the lower-cased text
BUCKET_RULES ==
  ("LLM/Text" :> << {<<"gpt">>, <<"claude">>, <<"gemini">>, <<"llama">>, <<"mistral">>,
                     <<"command">>, <<"text">>, <<"rag">>, <<"token">>} >>) @@
  ("Image/Vision" :> << {<<"image">>, <<"vision">>, <<"diffusion">>, <<"sdxl">>, <<"stability">>,
                         <<"midjourney">>, <<"segmentation">>, <<"detection">>} >>) @@
  ("Video/Motion" :> << {<<"video">>, <<"sora">>, <<"veo">>, <<"motion">>, <<"frame">>,
                         <<"temporal">>, <<"uhd">>} >>) @@
  ("Audio/Music" :> << {<<"audio">>, <<"music">>, <<"voice">>, <<"tts">>, <<"asr">>,
                        <<"whisper">>, <<"chorus">>, <<"suno">>} >>) @@
  ("Multi-Modal/Agentic" :> << {<<"multimodal">>, <<"agent">>, <<"tooluse">>, <<"tool", "use">>,
                                <<"orchestration">>, <<"workflow">>, <<"planner">>} >>)

VENDOR_HINT ==
  <<"openai", "google", "deepmind", "microsoft", "meta", "anthropic", "amazon", "xai",
    "stability", "midjourney", "runway", "pika", "elevenlabs", "coqui", "suno", "mistral",
    "databricks", "snowflake", "perplexity", "reka", "nvidia", "intel", "amd", "apple">>

\* str.title() on the vendor hints
Title ==
  ("openai" :> "Openai") @@ ("google" :> "Google") @@ ("deepmind" :> "Deepmind") @@
  ("microsoft" :> "Microsoft") @@ ("meta" :> "Meta") @@ ("anthropic" :> "Anthropic") @@
  ("amazon" :> "Amazon") @@ ("xai" :> "Xai") @@ ("stability" :> "Stability") @@
  ("midjourney" :> "Midjourney") @@ ("runway" :> "Runway") @@ ("pika" :> "Pika") @@
  ("elevenlabs" :> "Elevenlabs") @@ ("coqui" :> "Coqui") @@ ("suno" :> "Suno") @@
  ("mistral" :> "Mistral") @@ ("databricks" :> "Databricks") @@ ("snowflake" :> "Snowflake") @@
  ("perplexity" :> "Perplexity") @@ ("reka" :> "Reka") @@ ("nvidia" :> "Nvidia") @@
  ("intel" :> "Intel") @@ ("amd" :> "Amd") @@ ("apple" :> "Apple")

BEST_FOR_DEFAULT ==
  ("LLM/Text" :> "Reasoning, chat, knowledge tasks") @@
  ("Image/Vision" :> "Image generation & perception") @@
  ("Video/Motion" :> "Video synthesis & motion effects") @@
  ("Audio/Music" :> "Voice, TTS, music generation") @@
  ("Multi-Modal/Agentic" :> "Orchestration & tool-use")

\* ------------------------------------------- update_leaderboard helpers
score_from_keywords(text, patterns) ==
  LET t == Lower(text)
      s == Cardinality({i \in 1..Len(patterns) : Search(patterns[i], t)})
  IN  Min(UNIT, (s * UNIT) \div Max(1, Len(patterns)))

detect_vendor(text) ==
  LET t == Lower(text)
      found == {i \in 1..Len(VENDOR_HINT) : HasSubstring(t, <<VENDOR_HINT[i]>>)}
  IN  IF found = {} THEN "Other"
      ELSE Title[VENDOR_HINT[CHOOSE i \in found : \A j \in found : i <= j]]

\* buckets_for without its fallback: the bare hits
buckets_for_nofallback(text) ==
  SelectSeq(CATEGORIES, LAMBDA cat : \E i \in 1..Len(BUCKET_RULES[cat]) :
                                       Search(BUCKET_RULES[cat][i], Lower(text)))

buckets_for(text) ==
  LET hits == SelectSeq(CATEGORIES, LAMBDA cat : \E i \in 1..Len(BUCKET_RULES[cat]) :
                                                   Search(BUCKET_RULES[cat][i], Lower(text)))
  IN  IF hits # <<>> THEN hits ELSE <<"LLM/Text">>

TitleLimit == 140

derive_whats_new_and_date(item) ==
  LET title == Or(Get(item, "title", None), <<>>)
      date == Or(Get(item, "published_at", None), Get(item, "date", None))
  IN  <<Or(Slice(title, TitleLimit), <<"Recent update">>), date>>

derive_pro_con(text) ==
  LET t == Lower(text)
      any(ks) == \E k \in ks : HasSubstring(t, k)
      pro == (IF Search(KEYWORDS["performance"][1], t) \/ HasSubstring(t, <<"benchmark">>)
              THEN <<"Strong benchmarks">> ELSE <<>>)
          \o (IF any({<<"cheap">>, <<"afford">>, <<"pricing">>, <<"throughput">>, <<"latency">>,
                      <<"serverless">>, <<"efficient">>})
              THEN <<"Good cost/throughput">> ELSE <<>>)
          \o (IF any({<<"privacy">>, <<"on", "device">>, <<"watermark">>, <<"consent">>,
                      <<"likeness">>})
              THEN <<"Privacy-friendly">> ELSE <<>>)
      con == (IF any({<<"limited">>, <<"bug">>, <<"outage">>, <<"downtime">>, <<"restriction">>,
                      <<"waitlist">>})
              THEN <<"Availability limits">> ELSE <<>>)
          \o (IF any({<<"price", "increase">>, <<"expensive">>, <<"costly">>})
              THEN <<"Higher cost">> ELSE <<>>)
          \o (IF any({<<"copyright">>, <<"likeness">>, <<"lawsuit">>})
              THEN <<"Potential IP/likeness risk">> ELSE <<>>)
  IN  <<Or(pro, None), Or(con, None)>>

\* ------------------------------------------------------------ aggregation
\* the default factory of per_bucket[c]
NewAggregate(c) ==
  [popularity |-> 0, performance |-> 0, cost |-> 0, privacy |-> 0, innovation |-> 0,
   examples |-> <<>>, whats_new |-> None, whats_new_date |-> None,
   best_used_for |-> Get(BEST_FOR_DEFAULT, c, ""), main_pro |-> None, main_con |-> None]

\* per_bucket: for each category a dict vendor -> aggregate, kept as the sequence
\* of its entries [vendor, subs] in insertion order
EmptyPerBucket == [c \in Range(CATEGORIES) |-> <<>>]

Vendors(entries) == {entries[i].vendor : i \in 1..Len(entries)}

IndexOf(entries, vendor) == CHOOSE i \in 1..Len(entries) : entries[i].vendor = vendor

Signals(item, text) ==
  [popularity |-> Min(UNIT, UNIT \div 2 + Get(item, "score", 0) * 5
                             + score_from_keywords(text, KEYWORDS["popularity"]) \div 2),
   performance |-> score_from_keywords(text, KEYWORDS["performance"]),
   cost |-> score_from_keywords(text, KEYWORDS["cost"]),
   privacy |-> score_from_keywords(text, KEYWORDS["privacy"]),
   innovation |-> score_from_keywords(text, KEYWORDS["innovation"])]

\* f"{title} {summary}"
TextOf(item) == Get(item, "title", <<>>) \o Get(item, "summary", <<>>)

\* a merge that adds instead of taking the maximum
MergeSignalSum(old, v) == old + v

\* agg[k] = max(agg[k], v)
MergeSignal(old, v) == Max(old, v)

\* an assignment without the guard: the last value wins
FirstWinsLast(cur, offered) == offered

\* if not agg[f]: agg[f] = offered
FirstWins(cur, offered) == IF ~Truthy(cur) THEN offered ELSE cur

\* if offered and not agg[f]: agg[f] = offered
FirstWinsIfOffered(cur, offered) == IF Truthy(offered) /\ ~Truthy(cur) THEN offered ELSE cur

Example(item) ==
  LET ex == [title |-> Get(item, "title", <<>>), url |-> Get(item, "url", None),
             signal |-> Round(Get(item, "score", 0), 100)]
  IN  IF Truthy(Get(item, "published_at", None))
      THEN SetKey(ex, "date", item["published_at"]) ELSE ex

\* the body of "for cat in cats", on the aggregate of (cat, vendor)
FoldAggregate(agg, item) ==
  LET text == TextOf(item)
      signals == Signals(item, text)
      wn == derive_whats_new_and_date(item)
      pc_ == derive_pro_con(text)
  IN  [agg EXCEPT
        !.popularity = MergeSignal(@, signals.popularity),
        !.performance = MergeSignal(@, signals.performance),
        !.cost = MergeSignal(@, signals.cost),
        !.privacy = MergeSignal(@, signals.privacy),
        !.innovation = MergeSignal(@, signals.innovation),
        !.whats_new = FirstWins(@, wn[1]),
        !.whats_new_date = FirstWins(@, wn[2]),
        !.main_pro = FirstWinsIfOffered(@, pc_[1]),
        !.main_con = FirstWinsIfOffered(@, pc_[2]),
        !.examples = IF Len(@) < 3 THEN Append(@, Example(item)) ELSE @]

\* one iteration of "for item in news"
FoldItem(pb, item) ==
  LET text == TextOf(item)
      vendor == detect_vendor(text)
      cats == buckets_for(text)
  IN  [c \in DOMAIN pb |->
        IF c \notin Range(cats) THEN pb[c]
        ELSE IF vendor \in Vendors(pb[c])
        THEN [pb[c] EXCEPT ![IndexOf(pb[c], vendor)].subs = FoldAggregate(@, item)]
        ELSE Append(pb[c], [vendor |-> vendor, subs |-> FoldAggregate(NewAggregate(c), item)])]

\* ---------------------------------------------------------------- ranking
Row(vendor, subs, w) ==
  LET total == subs.popularity * w.popularity + subs.performance * w.performance
               + subs.cost * w.cost + subs.privacy * w.privacy
               + subs.innovation * w.innovation
  IN  [label |-> vendor,
       score_total |-> Round(total, 1000),
       scores |-> [k \in DOMAIN WEIGHTS |-> Round(subs[k], 100)],
       examples |-> subs.examples,
       whats_new |-> subs.whats_new,
       whats_new_date |-> subs.whats_new_date,
       best_used_for |-> subs.best_used_for,
       main_pro |-> subs.main_pro,
       main_con |-> subs.main_con]

\* an insertion that puts r in front of the rows it ties with
InsertTiesFirst(sorted, r) ==
  LET n == Cardinality({i \in 1..Len(sorted) : sorted[i].score_total > r.score_total})
  IN  SubSeq(sorted, 1, n) \o <<r>> \o SubSeq(sorted, n + 1, Len(sorted))

\* the place a stable descending sort gives row r among rows already sorted:
\* behind every row whose score_total is not smaller
Insert(sorted, r) ==
  LET n == Cardinality({i \in 1..Len(sorted) : sorted[i].score_total >= r.score_total})
  IN  SubSeq(sorted, 1, n) \o <<r>> \o SubSeq(sorted, n + 1, Len(sorted))

RECURSIVE SortDesc(_)
\* rows.sort(key=lambda r: r["score_total"], reverse=True): stable, descending
SortDesc(rows) ==
  IF rows = <<>> THEN <<>>
  ELSE Insert(SortDesc(SubSeq(rows, 1, Len(rows) - 1)), rows[Len(rows)])

Rows(entries, w) == [i \in 1..Len(entries) |-> Row(entries[i].vendor, entries[i].subs, w)]

\* a slice that is one row too long
TruncateOneMore(rows, top_per) == Slice(rows, top_per + 1)

\* rows[:top_per]
Truncate(rows, top_per) == Slice(rows, top_per)

Leaderboard(pb, w, top_per) == [c \in DOMAIN pb |-> Truncate(SortDesc(Rows(pb[c], w)), top_per)]

\* a document rebuilt from the three known keys
Assemble3Keys(dashboard, leaderboard, now) ==
  [top_news |-> Get(dashboard, "top_news", <<>>), leaderboard |-> leaderboard,
   generated_at |-> now]

\* a document whose new rows are appended to the rows it held
AssembleAppend(dashboard, leaderboard, now) ==
  LET old == Get(dashboard, "leaderboard", <<>>)
      merged == [c \in DOMAIN leaderboard |-> Get(old, c, <<>>) \o leaderboard[c]]
  IN  SetKey(SetKey(dashboard, "leaderboard", merged), "generated_at", now)

\* dashboard["leaderboard"] = leaderboard; dashboard["generated_at"] = now
Assemble(dashboard, leaderboard, now) ==
  SetKey(SetKey(dashboard, "leaderboard", leaderboard), "generated_at", now)

\* ------------------------------------------------ the persisted document
Missing == [kind |-> "missing"]

Corrupt == [kind |-> "corrupt"]

Json(data) == [kind |-> "json", data |-> data]

\* json.load raises on a file that holds no JSON, and only FileNotFoundError
\* is caught. Both callers pass a default, so "default if default is not None
\* else {}" is the default.
read_json(f, default) ==
  IF f.kind = "json" THEN [raised |-> "", value |-> f.data]
  ELSE IF f.kind = "missing" THEN [raised |-> "", value |-> default]
  ELSE [raised |-> "JSONDecodeError"]

\* ------------------------------------------------------------ update_news
RECURSIVE SortNews(_)
\* items.sort(key=lambda x: x["score"], reverse=True)
SortNews(items) ==
  IF items = <<>> THEN <<>>
  ELSE LET rest == SortNews(SubSeq(items, 1, Len(items) - 1))
           it == items[Len(items)]
           n == Cardinality({i \in 1..Len(rest) : rest[i].score >= it.score})
       IN  SubSeq(rest, 1, n) \o <<it>> \o SubSeq(rest, n + 1, Len(rest))

\* a payload that starts the leaderboard afresh
PayloadEmptyBoard(existing, top_news, now) ==
  [generated_at |-> now, top_news |-> top_news, leaderboard |-> <<>>]

\* lines 123-128
Payload(existing, top_news, now) ==
  [generated_at |-> now, top_news |-> top_news,
   leaderboard |-> Get(existing, "leaderboard", <<>>)]

\* ------------------------------------------------------------ the inputs
\* News items as update_news writes them (id and source, which
\* update_leaderboard never reads, left out), and one item that lacks every
\* optional key.
I1 == [title |-> <<"OpenAI", "launch", "GPT">>, summary |-> <<>>, url |-> <<"u1">>,
       published_at |-> <<"d1">>, score |-> 5000]

I2 == [title |-> <<"OpenAI", "GPT", "benchmark">>, summary |-> <<"outage">>, url |-> <<"u2">>,
       published_at |-> None, score |-> 5000]

I3 == [title |-> <<"Claude", "agents", "video">>, summary |-> <<"anthropic", "pricing">>,
       url |-> <<"u3">>, published_at |-> <<"d2">>, score |-> 5000]

I4 == [url |-> <<"u4">>]

I5 == [title |-> <<>>, summary |-> <<"google", "benchmarks">>, url |-> <<"u5">>,
       published_at |-> <<"d1">>, score |-> 2]

I6 == [title |-> <<"OpenAI", "GPT", "pricing">>, summary |-> <<"waitlist">>, url |-> <<"u6">>,
       published_at |-> <<"d2">>, score |-> 5000]

Catalogue == {I1, I2, I3, I4, I5, I6}

\* the lists of at most n distinct items of S
Lists(S, n) ==
  UNION {{b \in [1..m -> S] : \A i, j \in 1..m : b[i] = b[j] => i = j} : m \in 0..n}

\* what a fetch returns, with the score line 119 gives each item, in feed order
Fetchable == {I1, I5}

Fetches == Lists(Fetchable, MaxFetch)

\* top_news is written sorted by score, the higher first
Batches ==
  {b \in Lists(Catalogue, MaxNews) :
     \A i \in 1..(Len(b) - 1) : Get(b[i], "score", 0) >= Get(b[i + 1], "score", 0)}

TopPerValues == {-1} \cup (1..MaxTopPer)

TopNValues == {1, 5}

Times == 1..MaxTime

\* a document of the older schema of the same file (scripts/get_ai_news.py)
LegacyDocument == [meta |-> [last_updated |-> 0], categories |-> <<>>]

InitialDocuments ==
  {LegacyDocument}
  \cup {[top_news |-> b, leaderboard |-> <<>>, generated_at |-> 0] : b \in Batches}
  \cup {[top_news |-> b, leaderboard |-> <<>>, generated_at |-> 0,
         meta |-> [last_updated |-> 0]] : b \in Batches}

\* ------------------------------------------------------------- the state
VARIABLES
  file,        \* data/ai_dashboard.json
  pc,          \* "idle", or "fold" while update_leaderboard.main runs its loop
  dashboard,   \* main's locals
  news,
  idx,         \* the items of news folded so far
  per_bucket,
  top_per,
  weights,     \* the module table WEIGHTS
  lastRun      \* the last run that ended: its script, how it ended, its
               \* TOP_PER_BUCKET, what it found on disk, and whether it
               \* repeated the run before it

vars == <<file, pc, dashboard, news, idx, per_bucket, top_per, weights, lastRun>>

locals == <<dashboard, news, idx, per_bucket, top_per>>

NoLocals ==
  /\ dashboard = <<>>
  /\ news = <<>>
  /\ idx = 0
  /\ per_bucket = EmptyPerBucket
  /\ top_per = 0

Ended(script, outcome, tp, found) ==
  [script |-> script, outcome |-> outcome, top_per |-> tp, found |-> found,
   again |-> /\ script = "update_leaderboard" /\ outcome = "ok"
             /\ lastRun.script = script /\ lastRun.outcome = outcome
             /\ lastRun.top_per = tp]

InitState ==
  /\ file \in {Missing, Corrupt} \cup {Json(d) : d \in InitialDocuments}
  /\ pc = "idle"
  /\ NoLocals
  /\ lastRun = [script |-> "", outcome |-> "", top_per |-> 0, found |-> "", again |-> FALSE]

Init == InitState /\ weights = WEIGHTS

\* a deployment whose weight table was edited to a sum of 1.10
EditedWeights ==
  [popularity |-> 50, performance |-> 25, cost |-> 10, privacy |-> 10, innovation |-> 15]

InitConfig == InitState /\ weights \in {WEIGHTS, EditedWeights}

\* update_leaderboard.main, lines 116-126
LeaderboardStart(tp) ==
  /\ pc = "idle"
  /\ read_json(file, [top_news |-> <<>>, leaderboard |-> <<>>]).raised = ""
  /\ dashboard' = read_json(file, [top_news |-> <<>>, leaderboard |-> <<>>]).value
  /\ news' = Get(dashboard', "top_news", <<>>)
  /\ per_bucket' = EmptyPerBucket
  /\ idx' = 0
  /\ top_per' = tp
  /\ pc' = "fold"
  /\ UNCHANGED <<file, weights, lastRun>>

\* update_leaderboard.main when read_json raises: the run ends there
LeaderboardReadRaises(tp) ==
  /\ pc = "idle"
  /\ read_json(file, [top_news |-> <<>>, leaderboard |-> <<>>]).raised # ""
  /\ lastRun' = Ended("update_leaderboard",
                      read_json(file, [top_news |-> <<>>, leaderboard |-> <<>>]).raised,
                      tp, file.kind)
  /\ UNCHANGED <<file, pc, locals, weights>>

\* one iteration of the loop of lines 128-157
LeaderboardFold ==
  /\ pc = "fold"
  /\ idx < Len(news)
  /\ per_bucket' = FoldItem(per_bucket, news[idx + 1])
  /\ idx' = idx + 1
  /\ UNCHANGED <<file, pc, dashboard, news, top_per, weights, lastRun>>

\* lines 159-187: rank, assemble, write
LeaderboardWrite(now) ==
  /\ pc = "fold"
  /\ idx = Len(news)
  /\ file' = Json(Assemble(dashboard, Leaderboard(per_bucket, weights, top_per), now))
  /\ lastRun' = Ended("update_leaderboard", "ok", top_per, file.kind)
  /\ pc' = "idle"
  /\ dashboard' = <<>>
  /\ news' = <<>>
  /\ idx' = 0
  /\ per_bucket' = EmptyPerBucket
  /\ top_per' = 0
  /\ UNCHANGED weights

\* update_news.main: fetch, score, sort, truncate, read, write
UpdateNews(items, top_n, now) ==
  /\ pc = "idle"
  /\ read_json(file, <<>>).raised = ""
  /\ file' = Json(Payload(read_json(file, <<>>).value, Slice(SortNews(items), top_n), now))
  /\ lastRun' = Ended("update_news", "ok", 0, file.kind)
  /\ UNCHANGED <<pc, locals, weights>>

\* update_news.main when read_json raises
UpdateNewsReadRaises ==
  /\ pc = "idle"
  /\ read_json(file, <<>>).raised # ""
  /\ lastRun' = Ended("update_news", read_json(file, <<>>).raised, 0, file.kind)
  /\ UNCHANGED <<file, pc, locals, weights>>

\* update_news.main when the fetch raises (raise_for_status, the network)
UpdateNewsFetchRaises ==
  /\ pc = "idle"
  /\ lastRun' = Ended("update_news", "RequestException", 0, "")
  /\ UNCHANGED <<file, pc, locals, weights>>

Next ==
  \/ \E tp \in TopPerValues : LeaderboardStart(tp)
  \/ \E tp \in TopPerValues : LeaderboardReadRaises(tp)
  \/ LeaderboardFold
  \/ \E now \in Times : LeaderboardWrite(now)
  \/ \E items \in Fetches, top_n \in TopNValues, now \in Times :
       UpdateNews(items, top_n, now)
  \/ UpdateNewsReadRaises
  \/ UpdateNewsFetchRaises

Spec == Init /\ [][Next]_vars

SpecConfig == InitConfig /\ [][Next]_vars

\* ------------------------------------------------------------ the claims
\* what the claims read off a batch, without the fold
Matching(text) ==
  {c \in Range(CATEGORIES) : \E i \in 1..Len(BUCKET_RULES[c]) :
                               Search(BUCKET_RULES[c][i], Lower(text))}

\* the vendor, the buckets, the signals and the descriptive values of each
\* item of the catalogue
Classified ==
  [item \in Catalogue |->
     [vendor |-> detect_vendor(TextOf(item)),
      cats |-> Range(buckets_for(TextOf(item))),
      matching |-> Matching(TextOf(item)),
      signals |-> Signals(item, TextOf(item)),
      whats_new |-> derive_whats_new_and_date(item)[1],
      whats_new_date |-> derive_whats_new_and_date(item)[2],
      main_pro |-> derive_pro_con(TextOf(item))[1],
      main_con |-> derive_pro_con(TextOf(item))[2]]]

InPair(item, c, v) ==
  /\ Classified[item].vendor = v
  /\ c \in Classified[item].cats

\* the items of the pair (c, v) among the first n of batch b
PairItems(b, n, c, v) == {i \in 1..n : InPair(b[i], c, v)}

Least(S) == CHOOSE m \in S : \A x \in S : m <= x

Greatest(S) == CHOOSE m \in S : \A x \in S : x <= m

FirstSeen(b, c, v) ==
  IF PairItems(b, Len(b), c, v) = {} THEN Len(b) + 1 ELSE Least(PairItems(b, Len(b), c, v))

VendorsOf(b, c) ==
  {Classified[b[i]].vendor : i \in {j \in 1..Len(b) : c \in Classified[b[j]].cats}}

\* update_leaderboard has just written the document
Ranked ==
  /\ pc = "idle"
  /\ lastRun.script = "update_leaderboard"
  /\ lastRun.outcome = "ok"

WrittenBoard == file.data.leaderboard

WrittenNews == Get(file.data, "top_news", <<>>)

\* the step of update_leaderboard that writes the document
Writes == pc = "fold" /\ pc' = "idle"

\* a step of the loop of update_leaderboard
Folds == pc = "fold" /\ pc' = "fold"

\* C1: the rows written for a bucket are in non-increasing order of
\* score_total, and rows of equal score_total stand in the order in which
\* their vendors were first met for that bucket in the batch.
C1_SortedStable ==
  Ranked =>
    \A c \in Range(CATEGORIES) :
      LET rows == WrittenBoard[c]
      IN  \A i, j \in 1..Len(rows) :
            i < j =>
              /\ rows[i].score_total >= rows[j].score_total
              /\ FirstSeen(WrittenNews, c, rows[i].label) <= Len(WrittenNews)
              /\ rows[i].score_total = rows[j].score_total =>
                   FirstSeen(WrittenNews, c, rows[i].label)
                     < FirstSeen(WrittenNews, c, rows[j].label)

\* a bucket was written with two rows of equal score_total
C1_Witness ==
  /\ Ranked
  /\ \E c \in Range(CATEGORIES) : \E i, j \in 1..Len(WrittenBoard[c]) :
       /\ i < j
       /\ WrittenBoard[c][i].score_total = WrittenBoard[c][j].score_total

\* C2: with a positive top_k every bucket is written with exactly
\* min(top_k, number of distinct vendors of the bucket) rows, and they are the
\* first rows of the bucket's sorted group.
C2_TopK ==
  [][(Writes /\ top_per > 0) =>
       \A c \in Range(CATEGORIES) :
         LET rows == file'.data.leaderboard[c]
             group == SortDesc(Rows(per_bucket[c], weights))
         IN  /\ Len(rows) = Min(top_per, Cardinality(VendorsOf(news, c)))
             /\ Len(rows) <= Len(group)
             /\ rows = SubSeq(group, 1, Len(rows))]_vars

\* a bucket with more vendors than top_k was written, cut to top_k rows
C2_Witness ==
  /\ Ranked
  /\ lastRun.top_per > 0
  /\ \E c \in Range(CATEGORIES) :
       /\ Cardinality(VendorsOf(WrittenNews, c)) > lastRun.top_per
       /\ Len(WrittenBoard[c]) = lastRun.top_per

\* C3: after any prefix of the batch is folded, every signal of every
\* (bucket, vendor) aggregate is the maximum of that signal over the folded
\* items of the pair, and a further fold never lowers it.
MaxMerged(pb, b, n) ==
  \A c \in Range(CATEGORIES) : \A e \in 1..Len(pb[c]) :
    LET v == pb[c][e].vendor
        its == PairItems(b, n, c, v)
    IN  /\ its # {}
        /\ \A k \in DOMAIN WEIGHTS :
             pb[c][e].subs[k] = Greatest({Classified[b[i]].signals[k] : i \in its})

NeverLowered ==
  \A c \in Range(CATEGORIES) : \A e \in 1..Len(per_bucket[c]) :
    /\ e <= Len(per_bucket'[c])
    /\ per_bucket'[c][e].vendor = per_bucket[c][e].vendor
    /\ \A k \in DOMAIN WEIGHTS : per_bucket'[c][e].subs[k] >= per_bucket[c][e].subs[k]

C3_MaxMerge ==
  [][Folds => (MaxMerged(per_bucket', news, idx') /\ NeverLowered)]_vars

\* two items of one pair are folded, the later with the lower popularity
C3_Witness ==
  /\ pc = "fold"
  /\ \E c \in Range(CATEGORIES) : \E e \in 1..Len(per_bucket[c]) :
       \E i, j \in PairItems(news, idx, c, per_bucket[c][e].vendor) :
         /\ i < j
         /\ Classified[news[j]].signals.popularity < Classified[news[i]].signals.popularity
         /\ Classified[news[i]].signals.performance < Classified[news[j]].signals.performance

\* C4: whats_new, whats_new_date, main_pro and main_con of an aggregate are
\* each the value of the first folded item of the pair that offers one other
\* than None, and once set no later fold changes them.
Described == {"whats_new", "whats_new_date", "main_pro", "main_con"}

Offered(item, f) == Classified[item][f]

FirstOffered(b, its, f) ==
  LET offering == {i \in its : Offered(b[i], f) # None}
  IN  IF offering = {} THEN None ELSE Offered(b[Least(offering)], f)

SetByFirst(pb, b, n) ==
  \A c \in Range(CATEGORIES) : \A e \in 1..Len(pb[c]) : \A f \in Described :
    pb[c][e].subs[f] = FirstOffered(b, PairItems(b, n, c, pb[c][e].vendor), f)

WriteOnce ==
  \A c \in Range(CATEGORIES) : \A e \in 1..Len(per_bucket[c]) : \A f \in Described :
    per_bucket[c][e].subs[f] # None =>
      /\ e <= Len(per_bucket'[c])
      /\ per_bucket'[c][e].vendor = per_bucket[c][e].vendor
      /\ per_bucket'[c][e].subs[f] = per_bucket[c][e].subs[f]

C4_FirstWins ==
  [][Folds => (SetByFirst(per_bucket', news, idx') /\ WriteOnce)]_vars

\* two items of one pair are folded that offer different dates and different
\* pros, and another pair got its date from its second item
C4_Witness ==
  /\ pc = "fold"
  /\ \E c \in Range(CATEGORIES) : \E e \in 1..Len(per_bucket[c]) :
       \E i, j \in PairItems(news, idx, c, per_bucket[c][e].vendor) :
         /\ i < j
         /\ \/ /\ Offered(news[i], "whats_new_date") # None
               /\ Offered(news[j], "whats_new_date") # None
               /\ Offered(news[i], "whats_new_date") # Offered(news[j], "whats_new_date")
               /\ Offered(news[i], "main_pro") # None
               /\ Offered(news[j], "main_pro") # None
               /\ Offered(news[i], "main_pro") # Offered(news[j], "main_pro")
            \/ /\ Offered(news[i], "whats_new_date") = None
               /\ Offered(news[j], "whats_new_date") # None

\* C5: a run of update_leaderboard on a document changes its keys
\* leaderboard and generated_at only: every other key of the prior document
\* is written back with its value.
C5_Frame ==
  [][(Writes /\ file.kind = "json") =>
       /\ file'.kind = "json"
       /\ DOMAIN file'.data = DOMAIN file.data \cup {"leaderboard", "generated_at"}
       /\ \A k \in DOMAIN file.data \ {"leaderboard", "generated_at"} :
            file'.data[k] = file.data[k]]_vars

\* a document with a key of neither script and a batch of news was ranked
C5_Witness ==
  /\ Ranked
  /\ lastRun.found = "json"
  /\ "meta" \in DOMAIN file.data
  /\ WrittenNews # <<>>
  /\ \E c \in Range(CATEGORIES) : WrittenBoard[c] # <<>>

\* C6: a run of update_leaderboard right after another with the same top_k
\* writes the leaderboard it found, whatever leaderboard the first run found.
C6_Idempotent ==
  [][(/\ Writes
      /\ lastRun.script = "update_leaderboard"
      /\ lastRun.outcome = "ok"
      /\ lastRun.top_per = top_per) =>
       file'.data.leaderboard = file.data.leaderboard]_vars

\* the same run was made twice in a row over a batch that ranks some vendor
C6_Witness ==
  /\ Ranked
  /\ lastRun.again
  /\ \E c \in Range(CATEGORIES) : WrittenBoard[c] # <<>>

\* C7: with weights that do not sum to 1.0 a run of update_leaderboard ends
\* in a configuration error and writes no leaderboard.
WeightSum(w) ==
  w.popularity + w.performance + w.cost + w.privacy + w.innovation

C8_ReadFailureNotFatal ==
  lastRun.found \in {"missing", "corrupt"} =>
    /\ lastRun.outcome = "ok"
    /\ file.kind = "json"

\* C9: buckets_for is never empty, every folded item lands in the aggregate
\* of its vendor in each of its buckets, and an item no pattern matches lands
\* in "LLM/Text" and nowhere else.
NoHint(text) ==
  \A i \in 1..Len(VENDOR_HINT) : ~HasSubstring(Lower(text), <<VENDOR_HINT[i]>>)

\* the bucket holds an aggregate of the vendor that has taken the item in
FoldedInto(entries, vendor, item) ==
  \E e \in 1..Len(entries) :
    /\ entries[e].vendor = vendor
    /\ entries[e].subs.whats_new # None
    /\ \A k \in DOMAIN WEIGHTS :
         entries[e].subs[k] >= Classified[item].signals[k]

C9_NeverDropped ==
  [][Folds =>
       LET item == news[idx']
           vendor == Classified[item].vendor
       IN  /\ Classified[item].cats # {}
           /\ \A c \in Classified[item].cats : FoldedInto(per_bucket'[c], vendor, item)
           /\ Classified[item].matching = {} =>
                /\ FoldedInto(per_bucket'["LLM/Text"], vendor, item)
                /\ \A c \in Range(CATEGORIES) \ {"LLM/Text"} : per_bucket'[c] = per_bucket[c]
           /\ (Classified[item].matching = {} /\ NoHint(TextOf(item))) =>
                FoldedInto(per_bucket'["LLM/Text"], "Other", item)]_vars

\* an item without title and summary has just been folded
C9_Witness ==
  /\ pc = "fold"
  /\ idx > 0
  /\ TextOf(news[idx]) = <<>>
  /\ "Other" \in Vendors(per_bucket["LLM/Text"])

====
